---- MODULE Spec2Model ----
(***************************************************************************)
(* Model of cfcode4007/ai_english_query.                                   *)
(*                                                                         *)
(*  - STTListener (src/stt_listener.py): the foreground thread calling     *)
(*    start_speech / stop_speech / toggle_speech / shutdown, interleaved   *)
(*    statement by statement with the capture-loop threads running         *)
(*    listen_speech.                                                       *)
(*  - MariaDBConnection (src/mariadb_connector.py): _connect with its      *)
(*    retry loop, get_cursor, execute, execute_modify, close, and the      *)
(*    driver/server as environment.                                        *)
(*  - MariaDBConnection.query_generator: the fetch loop of the generator. *)
(*  - aiEnglishQuery (src/aiEnglishQuery.py): clean_ai_response, and the   *)
(*    handlers on_submit, on_clear and load_to_tkinter_grid on the widgets *)
(*    of the main window.                                                  *)
(*  - MariaDBLogin (src/mariadb_login.py): on_connect, on_cancel, window   *)
(*    close and run.                                                       *)
(***************************************************************************)
EXTENDS Integers, Sequences, FiniteSets, TLC

\* ------------------------------------------------------------------ bounds
\* Threads a run may spawn (Thread(target=self.listen_speech) calls).
MaxThreads == 2
\* Calls the foreground thread makes on one STTListener.
MaxCalls == 2
\* Largest reconnect_attempts a MariaDBConnection is constructed with.
MaxRetries == 2
\* Driver connections (mysql.connector.connect returning) in one run.
MaxConns == 2
\* Calls made on one MariaDBConnection.
MaxDbCalls == 3
\* Longest SQL string passed to execute / execute_modify.
MaxSqlLen == 2
\* Most rows in a result set streamed by query_generator.
MaxRows == 3
\* Largest chunk_size query_generator is called with.
MaxChunk == 3
\* Longest text between the fences of a translator reply.
MaxBody == 3
\* Most rows in a result list given to load_to_tkinter_grid.
MaxGridRows == 2
\* on_connect attempts made in one login dialog.
MaxLogins == 3

VARIABLES
    \* ---- STTListener fields (stt_listener.py:26-33)
    is_listening,     \* self.is_listening
    stop_listening,   \* self.stop_listening (threading.Event): TRUE = set
    speech_thread,    \* self.speech_thread: 0 = None, else the thread's id
    \* ---- threads running listen_speech
    nthreads,         \* threads spawned so far; ids are 1..nthreads
    wpc,              \* wpc[w]: position of thread w in listen_speech
    wexit,            \* wexit[w]: how w's capture loop ended
    wstops,           \* wstops[w]: on_stop invocations made by thread w
    mic,              \* threads inside `with self.microphone as source`
    clash,            \* some thread reached that `with` while another was inside
    \* ---- foreground thread
    mop,              \* the public method it is inside ("none" between calls)
    mpc,              \* its position in that method (source line)
    ncalls,           \* calls made so far
    \* ---- observations of the callbacks
    notified,         \* on_stop invocations since the listener last went idle -> listening
    heard,            \* transcription callbacks since the caller last started the listener
    stopped,          \* an explicit stop hit the current cycle while it was listening
    cb_raised,        \* a transcription callback has raised an exception
    \* ---- MariaDBConnection fields (mariadb_connector.py:44-47)
    reconnect_attempts, \* self.reconnect_attempts
    connection,       \* self.connection: 0 = None, else the driver connection's id
    cursor,           \* self.cursor: 0 = None, else the id of the connection it was made from
    \* ---- driver / server
    live,             \* driver connections that are open and connected
    nconns,           \* driver connections created so far; ids are 1..nconns
    \* ---- the caller's thread inside the connector
    dop,              \* the method called last
    dpc,              \* position in it ("idle" once it has returned or raised)
    sql,              \* its sql argument
    attempt,          \* _connect's loop variable
    cret,             \* what _connect returned ("none" while it runs)
    result,           \* how the call ended
    err,              \* the error the driver raised in the with-body
    \* ---- observations of the call in progress
    wasLive,          \* the session was live when the call was made
    base,             \* value of nconns when the call was made
    tries,            \* mysql.connector.connect calls made by this call
    oks,              \* of which succeeded (connection and cursor obtained)
    sleeps,           \* time.sleep(reconnect_delay) calls made by this call
    sent,             \* cursor.execute(sql) calls made by this call
    rollbacks,        \* connection.rollback() calls made by this call
    commits,          \* connection.commit() calls made by this call
    closes,           \* connection.close() calls made by this call
    after_close,      \* the call was made right after a close()
    ndbcalls,         \* calls made so far
    \* ---- query_generator (mariadb_connector.py:128-140)
    description,      \* cursor.description: the column names, in order
    resultset,        \* the rows the server holds for the statement
    chunk_size,       \* the chunk_size argument
    fetchpos,         \* rows the driver has handed out so far
    rows,             \* the batch the last fetchmany returned
    rowidx,           \* position of `for row in rows`
    yielded,          \* the mappings yielded so far
    fetches,          \* the length of each batch fetchmany returned
    gpc,              \* position of the generator
    \* ---- clean_ai_response (aiEnglishQuery.py:92-97)
    ai_response,      \* the argument
    cleaned,          \* the local `cleaned`
    cpc,              \* the line to run next
    \* ---- aiEnglishQuery widgets (aiEnglishQuery.py:115-179)
    content,          \* the text box, as the last handler found or left it
    status,           \* status_var
    tree_columns,     \* result_tree["columns"]
    tree_rows,        \* the values of result_tree's items, in order
    visible,          \* result_frame is gridded
    \* ---- observations of the last handler
    aop,              \* the handler
    results,          \* the list given to load_to_tkinter_grid
    lastsql,          \* the statement given to db.execute
    warned,           \* messagebox.showwarning calls it made
    translated,       \* payload.send_message calls it made
    executed,         \* db.execute calls it made
    escaped,          \* the exception that left it ("none" if it returned)
    rows_before,      \* items result_tree held when it began
    replied,          \* <<reply>> once send_message returned reply, else <<>>
    fetched,          \* <<rows>> once db.execute returned rows, else <<>>
    trail,            \* the steps it reached, in the order it reached them
    \* ---- MariaDBLogin (mariadb_login.py:15-44)
    is_root,          \* _is_root: standalone Tk window, else modal Toplevel
    win,              \* the dialog: "collecting", or "closed" once destroyed
    login_result,     \* _result: 0 for None, else the connection object
    login_connection, \* connection: 0 for None, else the connection object
    made,             \* MariaDBConnection objects constructed so far
    connected,        \* those of them whose _connect returned True
    attempts_log,     \* how each on_connect ended
    errors_shown,     \* messagebox.showerror calls made
    closed_by,        \* what destroyed the window
    returned,         \* <<v>> once run() returned v, <<>> while it waits
    \* ---- main (aiEnglishQuery.py:287-322)
    main_pc,          \* where main is ("none" when it is not run)
    app_db            \* the db main gave aiEnglishQuery(...), 0 before that

lvars == <<is_listening, stop_listening, speech_thread, nthreads, wpc, wexit,
           wstops, mic, clash, mop, mpc, ncalls, notified, heard, stopped,
           cb_raised>>

dvars == <<reconnect_attempts, connection, cursor, live, nconns, dop, dpc, sql,
           attempt, cret, result, err, wasLive, base, tries, oks, sleeps, sent,
           rollbacks, commits, closes, after_close, ndbcalls>>

svars == <<description, resultset, chunk_size, fetchpos, rows, rowidx,
           yielded, fetches, gpc>>

cvars == <<ai_response, cleaned, cpc>>

gvars == <<content, status, tree_columns, tree_rows, visible, aop, results,
           lastsql, warned, translated, executed, escaped, rows_before,
           replied, fetched, trail>>

nvars == <<is_root, win, login_result, login_connection, made, connected,
           attempts_log, errors_shown, closed_by, returned>>

mvars == <<main_pc, app_db>>

vars == <<lvars, dvars, svars, cvars, gvars, nvars, mvars>>

\* What the actions of one component leave alone.
exceptListener == <<dvars, svars, cvars, gvars, nvars, mvars>>
exceptDb == <<lvars, svars, cvars, gvars, nvars, mvars>>
exceptStream == <<lvars, dvars, cvars, gvars, nvars, mvars>>
exceptClean == <<lvars, dvars, svars, gvars, nvars, mvars>>
exceptApp == <<lvars, dvars, svars, cvars, nvars, mvars>>
exceptLogin == <<lvars, dvars, svars, cvars, gvars, mvars>>
exceptMain == <<lvars, dvars, svars, cvars, gvars, nvars>>

Threads == 1..MaxThreads

\* The four exit paths of the capture loop (listen_speech, lines 172-218).
FourPaths == {"success", "silence", "unknown", "request"}

\* A MariaDBConnection just constructed with reconnect_attempts = r
\* (mariadb_connector.py:44-47), no call made on it yet.
DbConstructed(r) ==
    /\ reconnect_attempts = r
    /\ connection = 0
    /\ cursor = 0
    /\ live = {}
    /\ nconns = 0
    /\ dop = "none"
    /\ dpc = "idle"
    /\ sql = <<>>
    /\ attempt = 0
    /\ cret = "none"
    /\ result = "none"
    /\ err = "none"
    /\ wasLive = FALSE
    /\ base = 0
    /\ tries = 0
    /\ oks = 0
    /\ sleeps = 0
    /\ sent = 0
    /\ rollbacks = 0
    /\ commits = 0
    /\ closes = 0
    /\ after_close = FALSE
    /\ ndbcalls = 0

\* The connector while another component is exercised.
DbParked == DbConstructed(0)

\* No query_generator call made: an empty result, nothing fetched.
StreamParked ==
    /\ description = <<>>
    /\ resultset = <<>>
    /\ chunk_size = 1
    /\ fetchpos = 0
    /\ rows = <<>>
    /\ rowidx = 0
    /\ yielded = <<>>
    /\ fetches = <<>>
    /\ gpc = "new"

\* No clean_ai_response call made.
CleanParked ==
    /\ ai_response = <<>>
    /\ cleaned = <<>>
    /\ cpc = "done"

\* A MariaDBLogin just constructed (mariadb_login.py:17-44), standalone
\* when root, with run() waiting in mainloop() or wait_window().
LoginConstructed(root) ==
    /\ is_root = root
    /\ win = "collecting"
    /\ login_result = 0
    /\ login_connection = 0
    /\ made = 0
    /\ connected = {}
    /\ attempts_log = <<>>
    /\ errors_shown = 0
    /\ closed_by = "none"
    /\ returned = <<>>

\* The login dialog while another component is exercised.
LoginParked == LoginConstructed(TRUE)

\* main is not run: the objects are constructed by their caller.
MainParked ==
    /\ main_pc = "none"
    /\ app_db = 0

\* The window as create_widgets leaves it (aiEnglishQuery.py:115-179): an
\* empty text box, status "Ready", a tree with the columns name and
\* population and no item, the result frame hidden by grid_remove().
AppConstructed ==
    /\ content = <<>>
    /\ status = "Ready"
    /\ tree_columns = <<"name", "population">>
    /\ tree_rows = <<>>
    /\ visible = FALSE
    /\ aop = "none"
    /\ results = <<>>
    /\ lastsql = <<>>
    /\ warned = 0
    /\ translated = 0
    /\ executed = 0
    /\ escaped = "none"
    /\ rows_before = 0
    /\ replied = <<>>
    /\ fetched = <<>>
    /\ trail = <<>>

\* ------------------------------------------------------------ construction
\* __init__ (stt_listener.py:25-35); a microphone and an on_stop callback
\* are present (init_microphone succeeded, on_stop was given).
ListenerInit ==
    /\ is_listening = FALSE
    /\ stop_listening = FALSE
    /\ speech_thread = 0
    /\ nthreads = 0
    /\ wpc = [w \in Threads |-> "new"]
    /\ wexit = [w \in Threads |-> "none"]
    /\ wstops = [w \in Threads |-> 0]
    /\ mic = {}
    /\ clash = FALSE
    /\ mop = "none"
    /\ mpc = "idle"
    /\ ncalls = 0
    /\ notified = 0
    /\ heard = 0
    /\ stopped = FALSE
    /\ cb_raised = FALSE

\* ------------------------------------------------------- foreground thread
\* start_speech (143-145): `if not self.is_listening: self.toggle_speech()`.
start_speech ==
    /\ mpc = "idle" /\ ncalls < MaxCalls
    /\ ncalls' = ncalls + 1
    /\ IF is_listening
         THEN mop' = "none" /\ mpc' = "idle"
         ELSE mop' = "start_speech" /\ mpc' = "L123"
    /\ UNCHANGED exceptListener
    /\ UNCHANGED <<cb_raised, clash, is_listening, stop_listening, speech_thread, nthreads, wpc,
                   wexit, wstops, mic, notified, heard, stopped>>

\* stop_speech (147-149): `if self.is_listening: self.toggle_speech()`.
stop_speech ==
    /\ mpc = "idle" /\ ncalls < MaxCalls
    /\ ncalls' = ncalls + 1
    /\ IF is_listening
         THEN mop' = "stop_speech" /\ mpc' = "L123"
         ELSE mop' = "none" /\ mpc' = "idle"
    /\ UNCHANGED exceptListener
    /\ UNCHANGED <<cb_raised, clash, is_listening, stop_listening, speech_thread, nthreads, wpc,
                   wexit, wstops, mic, notified, heard, stopped>>

\* toggle_speech called directly (122).
toggle_speech ==
    /\ mpc = "idle" /\ ncalls < MaxCalls
    /\ ncalls' = ncalls + 1
    /\ mop' = "toggle_speech" /\ mpc' = "L123"
    /\ UNCHANGED exceptListener
    /\ UNCHANGED <<cb_raised, clash, is_listening, stop_listening, speech_thread, nthreads, wpc,
                   wexit, wstops, mic, notified, heard, stopped>>

\* toggle_speech line 123: `if not self.is_listening:` picks the branch.
toggle_test ==
    /\ mpc = "L123"
    /\ IF is_listening
         THEN mpc' = "L135"
         ELSE nthreads < MaxThreads /\ mpc' = "L128"
    /\ UNCHANGED exceptListener
    /\ UNCHANGED <<cb_raised, clash, is_listening, stop_listening, speech_thread, nthreads, wpc,
                   wexit, wstops, mic, mop, ncalls, notified, heard, stopped>>

\* line 128: self.is_listening = True. The listener goes idle -> listening:
\* a new start/stop cycle begins. The caller started it unless it got here
\* from stop_speech.
toggle_set_listening ==
    /\ mpc = "L128"
    /\ is_listening' = TRUE
    /\ mpc' = "L130"
    /\ notified' = 0
    /\ stopped' = FALSE
    /\ heard' = IF mop = "stop_speech" THEN heard ELSE 0
    /\ UNCHANGED exceptListener
    /\ UNCHANGED <<cb_raised, clash, stop_listening, speech_thread, nthreads, wpc, wexit, wstops,
                   mic, mop, ncalls>>

\* line 130: self.stop_listening.clear()
toggle_clear ==
    /\ mpc = "L130"
    /\ stop_listening' = FALSE
    /\ mpc' = "L131"
    /\ UNCHANGED exceptListener
    /\ UNCHANGED <<cb_raised, clash, is_listening, speech_thread, nthreads, wpc, wexit, wstops,
                   mic, mop, ncalls, notified, heard, stopped>>

\* lines 131-132: self.speech_thread = Thread(target=self.listen_speech);
\* self.speech_thread.start()
toggle_spawn ==
    /\ mpc = "L131"
    /\ nthreads < MaxThreads
    /\ nthreads' = nthreads + 1
    /\ speech_thread' = nthreads + 1
    /\ wpc' = [wpc EXCEPT ![nthreads + 1] = "start"]
    /\ mop' = "none" /\ mpc' = "idle"
    /\ UNCHANGED exceptListener
    /\ UNCHANGED <<cb_raised, clash, is_listening, stop_listening, wexit, wstops, mic, ncalls,
                   notified, heard, stopped>>

\* line 135: self.is_listening = False (the explicit stop).
toggle_unset_listening ==
    /\ mpc = "L135"
    /\ is_listening' = FALSE
    /\ stopped' = (stopped \/ is_listening)
    /\ mpc' = "L136"
    /\ UNCHANGED exceptListener
    /\ UNCHANGED <<cb_raised, clash, stop_listening, speech_thread, nthreads, wpc, wexit, wstops,
                   mic, mop, ncalls, notified, heard>>

\* line 136: self.stop_listening.set()
toggle_set_event ==
    /\ mpc = "L136"
    /\ stop_listening' = TRUE
    /\ mpc' = "L137"
    /\ UNCHANGED exceptListener
    /\ UNCHANGED <<cb_raised, clash, is_listening, speech_thread, nthreads, wpc, wexit, wstops,
                   mic, mop, ncalls, notified, heard, stopped>>

\* lines 137-139: `if self.speech_thread: join(timeout=1.0); speech_thread =
\* None`. join returns when the thread has ended or after 1.0 s, whichever
\* comes first: the thread may still be blocked in recognizer.listen (up to
\* timeout + phrase_time_limit seconds), so the step is enabled at any time.
toggle_join ==
    /\ mpc = "L137"
    /\ speech_thread' = 0
    /\ mop' = "none" /\ mpc' = "idle"
    /\ UNCHANGED exceptListener
    /\ UNCHANGED <<cb_raised, clash, is_listening, stop_listening, nthreads, wpc, wexit, wstops,
                   mic, ncalls, notified, heard, stopped>>

\* shutdown, line 153: self.stop_listening.set()
shutdown ==
    /\ mpc = "idle" /\ ncalls < MaxCalls
    /\ ncalls' = ncalls + 1
    /\ stop_listening' = TRUE
    /\ mop' = "shutdown" /\ mpc' = "L154"
    /\ UNCHANGED exceptListener
    /\ UNCHANGED <<cb_raised, clash, is_listening, speech_thread, nthreads, wpc, wexit, wstops,
                   mic, notified, heard, stopped>>

\* shutdown, line 154: self.is_listening = False
shutdown_unset_listening ==
    /\ mpc = "L154"
    /\ is_listening' = FALSE
    /\ stopped' = (stopped \/ is_listening)
    /\ mpc' = "L155"
    /\ UNCHANGED exceptListener
    /\ UNCHANGED <<cb_raised, clash, stop_listening, speech_thread, nthreads, wpc, wexit, wstops,
                   mic, mop, ncalls, notified, heard>>

\* shutdown, lines 155-162: bounded join (speech_thread is kept), then
\* self.on_stop().
shutdown_notify ==
    /\ mpc = "L155"
    /\ notified' = notified + 1
    /\ mop' = "none" /\ mpc' = "idle"
    /\ UNCHANGED exceptListener
    /\ UNCHANGED <<cb_raised, clash, is_listening, stop_listening, speech_thread, nthreads, wpc,
                   wexit, wstops, mic, ncalls, heard, stopped>>

MainStep ==
    \/ start_speech
    \/ stop_speech
    \/ toggle_speech
    \/ toggle_test
    \/ toggle_set_listening
    \/ toggle_clear
    \/ toggle_spawn
    \/ toggle_unset_listening
    \/ toggle_set_event
    \/ toggle_join
    \/ shutdown
    \/ shutdown_unset_listening
    \/ shutdown_notify

\* ------------------------------------------------- capture-loop thread w
\* listen_speech line 165: `with self.microphone as source:`. Nothing in
\* STTListener serialises this statement; when another thread is still
\* inside its own `with` block, the microphone object either refuses the
\* second entry (listen_enter_fails) or admits it (its guard is an assert
\* on the stream, absent under python -O and not atomic with the open).
listen_enter(w) ==
    /\ wpc[w] = "start"
    /\ mic' = mic \cup {w}
    /\ clash' = (clash \/ mic # {})
    /\ wpc' = [wpc EXCEPT ![w] = "test"]
    /\ UNCHANGED exceptListener
    /\ UNCHANGED <<cb_raised, is_listening, stop_listening, speech_thread, nthreads,
                   wexit, wstops, mop, mpc, ncalls, notified, heard, stopped>>

\* line 165 raising in the thread: the thread ends, nothing else changes.
listen_enter_fails(w) ==
    /\ wpc[w] = "start"
    /\ mic # {}
    /\ clash' = TRUE
    /\ wpc' = [wpc EXCEPT ![w] = "done"]
    /\ wexit' = [wexit EXCEPT ![w] = "crashed"]
    /\ UNCHANGED exceptListener
    /\ UNCHANGED <<cb_raised, is_listening, stop_listening, speech_thread, nthreads,
                   wstops, mic, mop, mpc, ncalls, notified, heard, stopped>>

\* line 166, first operand: `while self.is_listening and ...`
listen_test(w) ==
    /\ wpc[w] = "test"
    /\ IF is_listening
         THEN wpc' = [wpc EXCEPT ![w] = "test2"] /\ UNCHANGED wexit
         ELSE /\ wpc' = [wpc EXCEPT ![w] = "exit"]
              /\ wexit' = [wexit EXCEPT ![w] = "cancelled"]
    /\ UNCHANGED exceptListener
    /\ UNCHANGED <<cb_raised, clash, is_listening, stop_listening, speech_thread, nthreads,
                   wstops, mic, mop, mpc, ncalls, notified, heard, stopped>>

\* line 166, second operand: `... and not self.stop_listening.is_set()`
listen_test_event(w) ==
    /\ wpc[w] = "test2"
    /\ IF stop_listening
         THEN /\ wpc' = [wpc EXCEPT ![w] = "exit"]
              /\ wexit' = [wexit EXCEPT ![w] = "cancelled"]
         ELSE wpc' = [wpc EXCEPT ![w] = "listen"] /\ UNCHANGED wexit
    /\ UNCHANGED exceptListener
    /\ UNCHANGED <<cb_raised, clash, is_listening, stop_listening, speech_thread, nthreads,
                   wstops, mic, mop, mpc, ncalls, notified, heard, stopped>>

\* lines 170-171: recognizer.listen + recognize_google return text
\* ("success") or raise WaitTimeoutError ("silence"), UnknownValueError
\* ("unknown") or RequestError ("request").
listen_capture(w) ==
    /\ wpc[w] = "listen"
    /\ \E outcome \in FourPaths :
          /\ wexit' = [wexit EXCEPT ![w] = outcome]
          /\ wpc' = [wpc EXCEPT ![w] = IF outcome = "success" THEN "cb" ELSE "clr"]
    /\ UNCHANGED exceptListener
    /\ UNCHANGED <<cb_raised, clash, is_listening, stop_listening, speech_thread, nthreads,
                   wstops, mic, mop, mpc, ncalls, notified, heard, stopped>>

\* line 172: self._on_transcription(text) -> self.callback(text)
listen_transcribed(w) ==
    /\ wpc[w] = "cb"
    /\ heard' = heard + 1
    /\ wpc' = [wpc EXCEPT ![w] = "clr"]
    /\ UNCHANGED exceptListener
    /\ UNCHANGED <<cb_raised, clash, is_listening, stop_listening, speech_thread, nthreads,
                   wexit, wstops, mic, mop, mpc, ncalls, notified, stopped>>

\* lines 176 / 188 / 200 / 211: self.is_listening = False. The RequestError
\* handler has no stop_listening.set() after it.
listen_unset_listening(w) ==
    /\ wpc[w] = "clr"
    /\ is_listening' = FALSE
    /\ wpc' = [wpc EXCEPT ![w] = IF wexit[w] = "request" THEN "notify" ELSE "set"]
    /\ UNCHANGED exceptListener
    /\ UNCHANGED <<cb_raised, clash, stop_listening, speech_thread, nthreads, wexit, wstops, mic,
                   mop, mpc, ncalls, notified, heard, stopped>>

\* lines 177 / 189 / 201: self.stop_listening.set()
listen_set_event(w) ==
    /\ wpc[w] = "set"
    /\ stop_listening' = TRUE
    /\ wpc' = [wpc EXCEPT ![w] = "notify"]
    /\ UNCHANGED exceptListener
    /\ UNCHANGED <<cb_raised, clash, is_listening, speech_thread, nthreads, wexit, wstops, mic,
                   mop, mpc, ncalls, notified, heard, stopped>>

\* A handler that forgets the notification on the RequestError path.
listen_notify_not_on_request(w) ==
    /\ wpc[w] = "notify"
    /\ wstops' = [wstops EXCEPT ![w] = IF wexit[w] = "request" THEN @ ELSE @ + 1]
    /\ notified' = IF wexit[w] = "request" THEN notified ELSE notified + 1
    /\ wpc' = [wpc EXCEPT ![w] = "exit"]
    /\ UNCHANGED exceptListener
    /\ UNCHANGED <<cb_raised, clash, is_listening, stop_listening, speech_thread, nthreads,
                   wexit, mic, mop, mpc, ncalls, heard, stopped>>

\* lines 178-182 / 190-194 / 202-206 / 213-217: self.on_stop(), its
\* exceptions swallowed.
listen_notify(w) ==
    /\ wpc[w] = "notify"
    /\ wstops' = [wstops EXCEPT ![w] = @ + 1]
    /\ notified' = notified + 1
    /\ wpc' = [wpc EXCEPT ![w] = "exit"]
    /\ UNCHANGED exceptListener
    /\ UNCHANGED <<cb_raised, clash, is_listening, stop_listening, speech_thread, nthreads,
                   wexit, mic, mop, mpc, ncalls, heard, stopped>>

\* `break` / loop end, then the with block's __exit__ releases the
\* microphone and the thread ends.
listen_exit(w) ==
    /\ wpc[w] = "exit"
    /\ mic' = mic \ {w}
    /\ wpc' = [wpc EXCEPT ![w] = "done"]
    /\ UNCHANGED exceptListener
    /\ UNCHANGED <<cb_raised, clash, is_listening, stop_listening, speech_thread, nthreads,
                   wexit, wstops, mop, mpc, ncalls, notified, heard, stopped>>

listen_speech(w) ==
    \/ listen_enter(w)
    \/ listen_enter_fails(w)
    \/ listen_test(w)
    \/ listen_test_event(w)
    \/ listen_capture(w)
    \/ listen_transcribed(w)
    \/ listen_unset_listening(w)
    \/ listen_set_event(w)
    \/ listen_notify(w)
    \/ listen_exit(w)

ListenerNext == MainStep \/ \E w \in Threads : listen_speech(w)

ListenerSpecInit ==
    /\ ListenerInit
    /\ DbParked
    /\ StreamParked
    /\ CleanParked
    /\ AppConstructed
    /\ LoginParked
    /\ MainParked

SpecListener == ListenerSpecInit /\ [][ListenerNext]_vars

\* Every spawned thread keeps running (the interpreter schedules it; listen
\* is bounded by timeout + phrase_time_limit, recognize_google returns or
\* raises).
SpecListenerFair ==
    SpecListener /\ \A w \in Threads : WF_vars(listen_speech(w))

\* lines 170-171 raising an exception that is none of WaitTimeoutError,
\* UnknownValueError and RequestError (an OSError of the audio stream, an
\* error while the service's response is read): no handler of lines
\* 183-218 matches, the exception leaves the loop and the with block and
\* ends the thread.
listen_capture_raises(w) ==
    /\ wpc[w] = "listen"
    /\ wexit' = [wexit EXCEPT ![w] = "escaped"]
    /\ wpc' = [wpc EXCEPT ![w] = "exit"]
    /\ UNCHANGED exceptListener
    /\ UNCHANGED <<cb_raised, clash, is_listening, stop_listening, speech_thread,
                   nthreads, wstops, mic, mop, mpc, ncalls, notified, heard,
                   stopped>>

\* line 172 with a callback that raises: _on_transcription (lines 107-111)
\* catches Exception and logs it, and listen_speech goes on.
listen_transcribed_raises(w) ==
    /\ wpc[w] = "cb"
    /\ heard' = heard + 1
    /\ cb_raised' = TRUE
    /\ wpc' = [wpc EXCEPT ![w] = "clr"]
    /\ UNCHANGED exceptListener
    /\ UNCHANGED <<clash, is_listening, stop_listening, speech_thread, nthreads,
                   wexit, wstops, mic, mop, mpc, ncalls, notified, stopped>>

\* The listener with callbacks and library calls that may raise.
ListenerFaultsNext ==
    \/ ListenerNext
    \/ \E w \in Threads : listen_capture_raises(w) \/ listen_transcribed_raises(w)

SpecListenerFaults == ListenerSpecInit /\ [][ListenerFaultsNext]_vars

Alive(w) == wpc[w] \notin {"new", "done"}

Quiescent == mpc = "idle" /\ \A w \in Threads : ~Alive(w)

\* ====================================================== MariaDBConnection
\* SQL strings: sequences over a whitespace character and a visible one.
Chars == {" ", "S"}

\* Characters str.strip() removes, of those that occur in the model.
Whitespace == {" ", "\n"}

SqlInputs == UNION {[1..n -> Chars] : n \in 0..MaxSqlLen}

RECURSIVE LStrip(_)
LStrip(s) ==
    IF s # <<>> /\ Head(s) \in Whitespace THEN LStrip(Tail(s)) ELSE s

RECURSIVE RStrip(_)
RStrip(s) ==
    IF s # <<>> /\ s[Len(s)] \in Whitespace
      THEN RStrip(SubSeq(s, 1, Len(s) - 1)) ELSE s

\* str.strip(): leading and trailing whitespace removed.
Strip(s) == RStrip(LStrip(s))

\* A blank check that tests the string for emptiness without stripping it.
IsBlankUnstripped(s) == s = <<>>

\* lines 100 / 118: `if not sql.strip():`
IsBlank(s) == Strip(s) = <<>>

\* A retry test that also holds on the last iteration.
MoreAttemptsInclusive(att) == att <= reconnect_attempts

\* line 68: `if attempt < self.reconnect_attempts:`
MoreAttempts(att) == att < reconnect_attempts

\* A success path without its `return True`: the loop goes on to the next
\* iteration, and after the last one falls to line 73.
AttemptResultFallsThrough(outcome, att) ==
    IF outcome = "ok" THEN (IF att < reconnect_attempts THEN "True" ELSE "False")
    ELSE IF MoreAttempts(att) THEN "retry" ELSE "False"

\* How one iteration of _connect's loop ends (lines 61-72): `return True`
\* after connect() and cursor(), else sleep and retry, else `return False`.
AttemptResult(outcome, att) ==
    IF outcome = "ok" THEN "True"
    ELSE IF MoreAttempts(att) THEN "retry" ELSE "False"

\* `self.connection and self.connection.is_connected()` (lines 55, 144).
IsConnected == connection # 0 /\ connection \in live

\* A _connect that never takes the early return.
ReuseSessionNever == FALSE

\* A _connect that takes the early return for any stored connection.
ReuseSessionUnchecked == connection # 0

\* line 55: the session is reused when it is connected.
ReuseSession == IsConnected

\* A close() that closes whenever a connection object is stored.
CloseNeededUnchecked == connection # 0

\* line 144: close() closes the session only when it is connected.
CloseNeeded == IsConnected

\* The bookkeeping at the start of a call of method op with argument s.
BeginCall(op, s) ==
    /\ dpc = "idle"
    /\ ndbcalls < MaxDbCalls
    /\ ndbcalls' = ndbcalls + 1
    /\ dop' = op
    /\ sql' = s
    /\ attempt' = 0
    /\ cret' = "none"
    /\ err' = "none"
    /\ wasLive' = (connection \in live)
    /\ base' = nconns
    /\ tries' = 0
    /\ oks' = 0
    /\ sleeps' = 0
    /\ sent' = 0
    /\ rollbacks' = 0
    /\ commits' = 0
    /\ after_close' = (dop = "close")

\* _connect called by a client (MariaDBLogin.on_connect, __enter__).
connect_call ==
    /\ BeginCall("_connect", <<>>)
    /\ dpc' = "L53"
    /\ result' = "none"
    /\ UNCHANGED <<closes, reconnect_attempts, connection, cursor, live, nconns>>
    /\ UNCHANGED exceptDb

\* execute(sql), lines 100-103: the blank check, then get_cursor -> _connect.
execute ==
    /\ \E s \in SqlInputs :
          /\ BeginCall("execute", s)
          /\ IF IsBlank(s)
               THEN result' = "ValueError" /\ dpc' = "idle"
               ELSE result' = "none" /\ dpc' = "L53"
    /\ closes' = 0
    /\ UNCHANGED <<reconnect_attempts, connection, cursor, live, nconns>>
    /\ UNCHANGED exceptDb

\* execute_modify(sql), lines 118-121.
execute_modify ==
    /\ \E s \in SqlInputs :
          /\ BeginCall("execute_modify", s)
          /\ IF IsBlank(s)
               THEN result' = "ValueError" /\ dpc' = "idle"
               ELSE result' = "none" /\ dpc' = "L53"
    /\ closes' = 0
    /\ UNCHANGED <<reconnect_attempts, connection, cursor, live, nconns>>
    /\ UNCHANGED exceptDb

\* One iteration of `for attempt in range(self.reconnect_attempts + 1)`
\* (lines 53-72), or line 73 when the range is exhausted.
\*   outcome "ok":      connect() and connection.cursor() succeed;
\*   outcome "lost":    connect() returns a connection that is lost before
\*                      cursor(), which raises Error on a connection that is
\*                      not connected;
\*   outcome "refused": connect() raises Error.
connect_attempt ==
    /\ dpc = "L53"
    /\ IF attempt > reconnect_attempts
         THEN /\ cret' = "False" /\ dpc' = "ret"
              /\ UNCHANGED <<connection, cursor, live, nconns, tries, oks, closes>>
         ELSE IF ReuseSession
         THEN /\ cret' = "True" /\ dpc' = "ret"
              /\ UNCHANGED <<connection, cursor, live, nconns, tries, oks, closes>>
         ELSE \E outcome \in {"ok", "lost", "refused"} :
              /\ outcome # "refused" => nconns < MaxConns
              /\ closes' = IF connection # 0 THEN closes + 1 ELSE closes
              /\ tries' = tries + 1
              /\ oks' = IF outcome = "ok" THEN oks + 1 ELSE oks
              /\ nconns' = IF outcome = "refused" THEN nconns ELSE nconns + 1
              /\ connection' = IF outcome = "refused" THEN connection ELSE nconns + 1
              /\ cursor' = IF outcome = "ok" THEN nconns + 1 ELSE cursor
              /\ live' = IF outcome = "ok"
                           THEN (live \ {connection}) \cup {nconns + 1}
                           ELSE live \ {connection}
              /\ LET r == AttemptResult(outcome, attempt) IN
                    IF r = "retry"
                      THEN cret' = cret /\ dpc' = "sleep"
                      ELSE cret' = r /\ dpc' = "ret"
    /\ UNCHANGED <<after_close, reconnect_attempts, dop, sql, attempt, result, err, wasLive,
                   base, sleeps, sent, rollbacks, commits, ndbcalls>>
    /\ UNCHANGED exceptDb

\* line 69: time.sleep(self.reconnect_delay), then the next iteration.
connect_sleep ==
    /\ dpc = "sleep"
    /\ sleeps' = sleeps + 1
    /\ attempt' = attempt + 1
    /\ dpc' = "L53"
    /\ UNCHANGED <<closes, after_close, reconnect_attempts, connection, cursor, live, nconns, dop,
                   sql, cret, result, err, wasLive, base, tries, oks, sent,
                   rollbacks, commits, ndbcalls>>
    /\ UNCHANGED exceptDb

\* _connect returns to the client that called it.
connect_return ==
    /\ dpc = "ret" /\ dop = "_connect"
    /\ result' = cret
    /\ dpc' = "idle"
    /\ UNCHANGED <<closes, after_close, reconnect_attempts, connection, cursor, live, nconns, dop,
                   sql, attempt, cret, err, wasLive, base, tries, oks, sleeps,
                   sent, rollbacks, commits, ndbcalls>>
    /\ UNCHANGED exceptDb

\* A get_cursor that yields the cursor whatever _connect returned.
get_cursor_unchecked ==
    /\ dpc = "ret" /\ dop \in {"execute", "execute_modify"}
    /\ dpc' = "body" /\ result' = result
    /\ UNCHANGED <<closes, after_close, reconnect_attempts, connection, cursor, live, nconns, dop,
                   sql, attempt, cret, err, wasLive, base, tries, oks, sleeps,
                   sent, rollbacks, commits, ndbcalls>>
    /\ UNCHANGED exceptDb

\* get_cursor, lines 78-82: `if not self._connect(): raise ConnectionError`,
\* else `yield self.cursor`.
get_cursor ==
    /\ dpc = "ret" /\ dop \in {"execute", "execute_modify"}
    /\ IF cret = "True"
         THEN dpc' = "body" /\ result' = result
         ELSE dpc' = "idle" /\ result' = "ConnectionError"
    /\ UNCHANGED <<closes, after_close, reconnect_attempts, connection, cursor, live, nconns, dop,
                   sql, attempt, cret, err, wasLive, base, tries, oks, sleeps,
                   sent, rollbacks, commits, ndbcalls>>
    /\ UNCHANGED exceptDb

\* lines 104-112 / 122: cursor.execute(sql) on the session the cursor
\* belongs to. It returns (execute then builds the rows and returns them),
\* or the driver raises Error: for the statement ("stmt"), or because the
\* session is or gets lost ("lost").
cursor_execute ==
    /\ dpc = "body"
    /\ sent' = sent + 1
    /\ \E outcome \in {"ok", "stmt", "lost"} :
          /\ cursor \notin live => outcome = "lost"
          /\ live' = IF outcome = "lost" THEN live \ {cursor} ELSE live
          /\ IF outcome = "ok"
               THEN /\ err' = err
                    /\ IF dop = "execute"
                         THEN result' = "rows" /\ dpc' = "idle"
                         ELSE result' = result /\ dpc' = "commit"
               ELSE err' = outcome /\ result' = result /\ dpc' = "rollback"
    /\ UNCHANGED <<closes, after_close, reconnect_attempts, connection, cursor, nconns, dop, sql,
                   attempt, cret, wasLive, base, tries, oks, sleeps, rollbacks,
                   commits, ndbcalls>>
    /\ UNCHANGED exceptDb

\* execute_modify lines 123-126: self.connection.commit(), then the
\* affected-row count is returned; commit on a lost session raises Error.
connection_commit ==
    /\ dpc = "commit"
    /\ commits' = commits + 1
    /\ IF connection \in live
         THEN result' = "count" /\ dpc' = "idle" /\ err' = err
         ELSE result' = result /\ dpc' = "rollback" /\ err' = "lost"
    /\ UNCHANGED <<closes, after_close, reconnect_attempts, connection, cursor, live, nconns, dop,
                   sql, attempt, cret, wasLive, base, tries, oks, sleeps, sent,
                   rollbacks, ndbcalls>>
    /\ UNCHANGED exceptDb

\* get_cursor lines 83-90: self.connection.rollback(), then `raise`. On a
\* session that is still connected rollback returns and the caught error is
\* re-raised ("DriverError"); on a lost one the driver has nothing to send
\* the ROLLBACK on, and if it raises, that error leaves the handler in place
\* of the caught one ("RollbackError").
connection_rollback ==
    /\ dpc = "rollback"
    /\ rollbacks' = rollbacks + 1
    /\ \E raises \in BOOLEAN :
          /\ raises => connection \notin live
          /\ result' = IF raises THEN "RollbackError" ELSE "DriverError"
    /\ dpc' = "idle"
    /\ UNCHANGED <<closes, after_close, reconnect_attempts, connection, cursor, live, nconns, dop,
                   sql, attempt, cret, err, wasLive, base, tries, oks, sleeps,
                   sent, commits, ndbcalls>>
    /\ UNCHANGED exceptDb

\* close(), lines 144-145: closes the session if it is connected.
close ==
    /\ BeginCall("close", <<>>)
    /\ IF CloseNeeded
         THEN /\ live' = live \ {connection}
              /\ closes' = 1
         ELSE /\ live' = live
              /\ closes' = 0
    /\ dpc' = "idle"
    /\ result' = "none"
    /\ UNCHANGED <<reconnect_attempts, connection, cursor, nconns>>
    /\ UNCHANGED exceptDb

\* Environment: the server or the network drops a session.
SessionDrop ==
    /\ \E c \in live : live' = live \ {c}
    /\ UNCHANGED <<closes, after_close, reconnect_attempts, connection, cursor, nconns, dop, dpc,
                   sql, attempt, cret, result, err, wasLive, base, tries, oks,
                   sleeps, sent, rollbacks, commits, ndbcalls>>
    /\ UNCHANGED exceptDb

DbNext ==
    \/ connect_call
    \/ execute
    \/ execute_modify
    \/ connect_attempt
    \/ connect_sleep
    \/ connect_return
    \/ get_cursor
    \/ cursor_execute
    \/ connection_commit
    \/ connection_rollback
    \/ close
    \/ SessionDrop

DbInit ==
    /\ ListenerInit
    /\ StreamParked
    /\ CleanParked
    /\ AppConstructed
    /\ LoginParked
    /\ MainParked
    /\ \E r \in 0..MaxRetries : DbConstructed(r)

SpecDb == DbInit /\ [][DbNext]_vars

\* ------------------------------------------------- query_generator, execute
\* Column names and cell values of the result sets considered.
Descriptions == {<<"id">>, <<"id", "name">>, <<"id", "id">>}
Cells == {"a", "b"}

\* Sequences over S of length n, and of length at most n.
RECURSIVE SeqsOfLen(_, _)
SeqsOfLen(S, n) ==
    IF n = 0 THEN {<<>>}
    ELSE {Append(q, x) : q \in SeqsOfLen(S, n - 1), x \in S}

SeqsUpTo(S, n) == UNION {SeqsOfLen(S, k) : k \in 0..n}

Min(a, b) == IF a < b THEN a ELSE b

\* The distinct elements of s in the order of their first occurrence.
RECURSIVE Distinct(_)
Distinct(s) ==
    IF s = <<>> THEN <<>>
    ELSE <<Head(s)>> \o SelectSeq(Distinct(Tail(s)), LAMBDA x : x # Head(s))

\* dict(zip(columns, row)): a dict is its keys in insertion order and the
\* value of each; of two columns with one name the key stays where the
\* first put it and the later one's value stays.
DictZip(columns, row) ==
    LET n == Min(Len(columns), Len(row)) IN
    [keys |-> Distinct(SubSeq(columns, 1, n)),
     val |-> [c \in {columns[i] : i \in 1..n} |->
                row[CHOOSE i \in 1..n :
                      /\ columns[i] = c
                      /\ \A j \in 1..n : columns[j] = c => j <= i]]]

\* execute, lines 106-107: [dict(zip(columns, row)) for row in fetchall()].
ExecuteResults(columns, all) ==
    [i \in 1..Len(all) |-> DictZip(columns, all[i])]

\* cursor.fetchmany(size): the next rows of the result, at most size.
FetchMany(size) ==
    SubSeq(resultset, fetchpos + 1, fetchpos + Min(size, Len(resultset) - fetchpos))

\* A loop that stops at the first batch shorter than chunk_size.
ShortBatch(batch) == Len(batch) < chunk_size

\* line 135: `if not rows: break`.
NoRows(batch) == batch = <<>>

\* The first next() on query_generator(sql, chunk_size), lines 131-132:
\* get_cursor and cursor.execute(sql); either may raise, and then the
\* generator is finished having yielded nothing.
query_generator ==
    /\ gpc = "new"
    /\ \E ok \in BOOLEAN : gpc' = IF ok THEN "fetch" ELSE "raised"
    /\ UNCHANGED <<description, resultset, chunk_size, fetchpos, rows, rowidx,
                   yielded, fetches>>
    /\ UNCHANGED exceptStream

\* lines 134-136: rows = cursor.fetchmany(chunk_size); break when empty.
fetchmany ==
    /\ gpc = "fetch"
    /\ LET batch == FetchMany(chunk_size) IN
          /\ rows' = batch
          /\ fetchpos' = fetchpos + Len(batch)
          /\ fetches' = Append(fetches, Len(batch))
          /\ IF NoRows(batch)
               THEN gpc' = "done" /\ rowidx' = 0
               ELSE gpc' = "yield" /\ rowidx' = 1
    /\ UNCHANGED <<description, resultset, chunk_size, yielded>>
    /\ UNCHANGED exceptStream

\* lines 137-139: one `yield dict(zip(columns, row))` of `for row in rows`.
yield_row ==
    /\ gpc = "yield"
    /\ yielded' = Append(yielded, DictZip(description, rows[rowidx]))
    /\ IF rowidx < Len(rows)
         THEN rowidx' = rowidx + 1 /\ gpc' = gpc
         ELSE rowidx' = 0 /\ gpc' = "fetch"
    /\ UNCHANGED <<description, resultset, chunk_size, fetchpos, rows, fetches>>
    /\ UNCHANGED exceptStream

StreamNext == query_generator \/ fetchmany \/ yield_row

\* A statement whose result the server holds, and a chunk_size >= 1.
StreamInit ==
    /\ ListenerInit
    /\ DbParked
    /\ CleanParked
    /\ AppConstructed
    /\ LoginParked
    /\ MainParked
    /\ description \in Descriptions
    /\ resultset \in SeqsUpTo(SeqsOfLen(Cells, Len(description)), MaxRows)
    /\ chunk_size \in 1..MaxChunk
    /\ fetchpos = 0
    /\ rows = <<>>
    /\ rowidx = 0
    /\ yielded = <<>>
    /\ fetches = <<>>
    /\ gpc = "new"

SpecStream == StreamInit /\ [][StreamNext]_vars

\* The consumer iterates the generator to its end.
SpecStreamFair == SpecStream /\ WF_vars(StreamNext)

\* ------------------------------------------------------- clean_ai_response
\* Replies are sequences of characters: the backtick (written "BQ"), a
\* letter, newline, space and a character that is neither a letter nor
\* whitespace.
Backtick == "BQ"
Fence == <<Backtick, Backtick, Backtick>>
Letters == {"S"}
ReplyChars == {Backtick, "S", "\n", " ", ";"}

\* Replies the translator may give: text, with or without an opening
\* fence, a language tag, newlines, a closing fence and padding around it.
Replies ==
    {pad1 \o open \o tag \o nl1 \o body \o nl2 \o shut \o pad2 :
        pad1 \in {<<>>, <<" ">>, <<"\n">>},
        open \in {<<>>, Fence},
        tag \in {<<>>, <<"S">>},
        nl1 \in {<<>>, <<"\n">>},
        body \in SeqsUpTo(ReplyChars, MaxBody),
        nl2 \in {<<>>, <<"\n">>},
        shut \in {<<>>, Fence},
        pad2 \in {<<>>, <<" ">>, <<"\n">>}}

StartsWith(s, p) == Len(s) >= Len(p) /\ SubSeq(s, 1, Len(p)) = p

EndsWith(s, p) ==
    Len(s) >= Len(p) /\ SubSeq(s, Len(s) - Len(p) + 1, Len(s)) = p

Drop(s, n) == SubSeq(s, n + 1, Len(s))

\* [a-zA-Z]* is greedy: the longest run of letters at the start of s.
RECURSIVE LetterRun(_)
LetterRun(s) ==
    IF s # <<>> /\ Head(s) \in Letters THEN 1 + LetterRun(Tail(s)) ELSE 0

\* A substitution that removes the opening fence and leaves the tag.
SubLeadingFenceOnly(s) == IF StartsWith(s, Fence) THEN Drop(s, 3) ELSE s

\* The first re.sub (line 94; pattern: start of string, three backticks,
\* [a-zA-Z]*, an optional newline): an opening fence at the start of s is
\* removed with the letters that follow it and one newline after them.
SubLeadingFence(s) ==
    IF StartsWith(s, Fence)
      THEN LET t == Drop(s, 3)
               u == Drop(t, LetterRun(t))
           IN IF u # <<>> /\ Head(u) = "\n" THEN Tail(u) ELSE u
      ELSE s

\* The second re.sub (line 95; pattern: an optional newline, three
\* backticks, end of string) for an s that does not end in a newline: a
\* closing fence at the end of s is removed with one newline before it.
SubTrailingFence(s) ==
    IF EndsWith(s, Fence)
      THEN LET t == SubSeq(s, 1, Len(s) - 3) IN
           IF t # <<>> /\ t[Len(t)] = "\n"
             THEN SubSeq(t, 1, Len(t) - 1) ELSE t
      ELSE s

\* line 94: cleaned = re.sub(<opening fence>, "", ai_response.strip())
clean_leading ==
    /\ cpc = "L94"
    /\ cleaned' = SubLeadingFence(Strip(ai_response))
    /\ cpc' = "L95"
    /\ UNCHANGED ai_response
    /\ UNCHANGED exceptClean

\* lines 95-97: cleaned = re.sub(<closing fence>, "", cleaned.strip()),
\* which is returned.
clean_trailing ==
    /\ cpc = "L95"
    /\ cleaned' = SubTrailingFence(Strip(cleaned))
    /\ cpc' = "done"
    /\ UNCHANGED ai_response
    /\ UNCHANGED exceptClean

CleanNext == clean_leading \/ clean_trailing

\* clean_ai_response called with a reply.
CleanInit ==
    /\ ListenerInit
    /\ DbParked
    /\ StreamParked
    /\ AppConstructed
    /\ LoginParked
    /\ MainParked
    /\ ai_response \in Replies
    /\ cleaned = <<>>
    /\ cpc = "L94"

SpecClean == CleanInit /\ [][CleanNext]_vars

\* The function as a whole, for its callers.
clean_ai_response(reply) == SubTrailingFence(Strip(SubLeadingFence(Strip(reply))))

\* ------------------------------------------------- aiEnglishQuery handlers
\* generate_sql, lines 83-90, from the reply send_message returned: the
\* statement is the reply as clean_ai_response leaves it. The second
\* definition hands the reply on as it came.
generate_sql_raw(reply) == reply

generate_sql(reply) == clean_ai_response(reply)

\* What the user may have typed when a handler runs.
TextInputs == {<<>>, <<"\n", " ">>, <<" ", "S", "\n">>}

\* What payload.send_message may return: a statement, bare or in a fenced
\* block, and replies with nothing in them, bare or fenced.
TranslatorReplies ==
    {<<"S">>,
     Fence \o <<"S", "\n", "S", ";", "\n">> \o Fence,
     <<" ", "\n">>,
     Fence \o <<"S", "\n">> \o Fence}

\* Rows a result list is made of: two with the same keys, one with these
\* keys in another order, one with a key missing, one with a key more.
GridDicts ==
    {DictZip(<<"id", "name">>, <<"a", "b">>),
     DictZip(<<"id", "name">>, <<"b", "a">>),
     DictZip(<<"name", "id">>, <<"b", "a">>),
     DictZip(<<"id">>, <<"a">>),
     DictZip(<<"id", "name", "city">>, <<"a", "a", "b">>)}

ResultLists == SeqsUpTo(GridDicts, MaxGridRows)

\* What db.execute returns (mariadb_connector.py:106-107): every row has
\* the keys of the cursor's description.
ExecuteReturns ==
    {r \in ResultLists : \A i \in 1..Len(r) : r[i].keys = r[1].keys}

\* line 266: `if not content.strip():`, without the strip.
NothingTyped(c) == c = <<>>

\* line 266: `if not content.strip():`
NothingToSubmit(c) == Strip(c) = <<>>

\* row.get(col, "")
Get(row, col) == IF col \in DOMAIN row.val THEN row.val[col] ELSE ""

\* A load that leaves the items of the earlier result in the tree.
KeepChildren(old) == old

\* lines 240-241: every item result_tree holds is deleted.
DeleteChildren(old) == <<>>

\* load_to_tkinter_grid(res), lines 237-260, as the new values of
\* tree_columns, tree_rows and visible.
Loaded(res) ==
    IF res = <<>>
      THEN [columns |-> tree_columns, rows |-> tree_rows, shown |-> visible]
      ELSE LET columns == res[1].keys IN
           [columns |-> columns,
            rows |-> DeleteChildren(tree_rows) \o
                       [i \in 1..Len(res) |->
                          [j \in 1..Len(columns) |-> Get(res[i], columns[j])]],
            shown |-> TRUE]

\* The bookkeeping at the start of handler h.
BeginHandler(h) ==
    /\ aop' = h
    /\ rows_before' = Len(tree_rows)

\* on_submit, lines 264-277. The user's text is c. Blank text: warning and
\* return. Otherwise generate_sql (send_message, which returns a reply or
\* raises, then clean_ai_response), execute_sql (db.execute, which raises
\* ValueError for a blank statement, else returns rows or raises what the
\* connector raises), load_to_tkinter_grid, result_frame.grid(). No line
\* of on_submit catches an exception.
on_submit ==
    /\ BeginHandler("on_submit")
    /\ \E c \in TextInputs :
          /\ content' = c
          /\ IF NothingToSubmit(c)
               THEN /\ warned' = 1
                    /\ status' = "Nothing to submit"
                    /\ translated' = 0 /\ executed' = 0
                    /\ escaped' = "none"
                    /\ results' = <<>> /\ lastsql' = <<>>
                    /\ replied' = <<>> /\ fetched' = <<>> /\ trail' = <<>>
                    /\ UNCHANGED <<tree_columns, tree_rows, visible>>
               ELSE /\ warned' = 0
                    /\ status' = "Submitted"
                    /\ translated' = 1
                    /\ \/ /\ escaped' = "TranslatorError"
                          /\ executed' = 0
                          /\ results' = <<>> /\ lastsql' = <<>>
                          /\ replied' = <<>> /\ fetched' = <<>>
                          /\ trail' = <<"translate">>
                          /\ UNCHANGED <<tree_columns, tree_rows, visible>>
                       \/ \E reply \in TranslatorReplies :
                          LET stmt == generate_sql(reply) IN
                          /\ replied' = <<reply>>
                          /\ lastsql' = stmt
                          /\ executed' = 1
                          /\ IF IsBlank(stmt)
                               THEN /\ escaped' = "ValueError"
                                    /\ results' = <<>> /\ fetched' = <<>>
                                    /\ trail' = <<"translate", "clean", "execute">>
                                    /\ UNCHANGED <<tree_columns, tree_rows, visible>>
                               ELSE \/ /\ escaped' \in {"ConnectionError", "DriverError"}
                                       /\ results' = <<>> /\ fetched' = <<>>
                                       /\ trail' = <<"translate", "clean", "execute">>
                                       /\ UNCHANGED <<tree_columns, tree_rows, visible>>
                                    \/ \E res \in ExecuteReturns :
                                       /\ escaped' = "none"
                                       /\ fetched' = <<res>>
                                       /\ trail' = <<"translate", "clean", "execute",
                                                     "render">>
                                       /\ results' = res
                                       /\ tree_columns' = Loaded(res).columns
                                       /\ tree_rows' = Loaded(res).rows
                                       /\ visible' = TRUE
    /\ UNCHANGED exceptApp

\* on_clear, lines 279-285: the text is deleted and the result frame
\* hidden; the tree keeps its items.
on_clear ==
    /\ BeginHandler("on_clear")
    /\ content' = <<>>
    /\ status' = "Cleared"
    /\ visible' = FALSE
    /\ warned' = 0 /\ translated' = 0 /\ executed' = 0
    /\ escaped' = "none"
    /\ results' = <<>> /\ lastsql' = <<>>
    /\ replied' = <<>> /\ fetched' = <<>> /\ trail' = <<>>
    /\ UNCHANGED <<tree_columns, tree_rows>>
    /\ UNCHANGED exceptApp

\* load_to_tkinter_grid(res) called with any list of dicts.
load_to_tkinter_grid ==
    /\ BeginHandler("load_to_tkinter_grid")
    /\ \E res \in ResultLists :
          /\ results' = res
          /\ tree_columns' = Loaded(res).columns
          /\ tree_rows' = Loaded(res).rows
          /\ visible' = Loaded(res).shown
    /\ warned' = 0 /\ translated' = 0 /\ executed' = 0
    /\ escaped' = "none"
    /\ lastsql' = <<>>
    /\ replied' = <<>> /\ fetched' = <<>> /\ trail' = <<"render">>
    /\ UNCHANGED <<content, status>>
    /\ UNCHANGED exceptApp

AppNext == on_submit \/ on_clear \/ load_to_tkinter_grid

AppInit ==
    /\ ListenerInit
    /\ DbParked
    /\ StreamParked
    /\ CleanParked
    /\ AppConstructed
    /\ LoginParked
    /\ MainParked

SpecApp == AppInit /\ [][AppNext]_vars

\* ------------------------------------------------------------ MariaDBLogin
\* A test of _connect's return value that takes any value for success.
ConnectUnchecked(ok) == TRUE

\* lines 92-94: `ok = conn._connect()`, `if not ok: raise RuntimeError`.
ConnectSucceeded(ok) == ok

\* on_connect, lines 82-106 (the Connect button and the Return key). The
\* form's port is an integer or not; if not, int(self.port_var.get())
\* raises before a connection object exists. Otherwise a MariaDBConnection
\* is constructed and its _connect returns True or False. Success: the
\* object is stored in connection and _result and the window destroyed.
\* Any exception: showerror, _result = None, the window stays.
on_connect ==
    /\ win = "collecting"
    /\ Len(attempts_log) < MaxLogins
    /\ \E port_ok \in BOOLEAN, ok \in BOOLEAN :
          IF ~port_ok
            THEN /\ attempts_log' = Append(attempts_log, "raised")
                 /\ errors_shown' = errors_shown + 1
                 /\ login_result' = 0
                 /\ UNCHANGED <<made, connected, login_connection, win, closed_by>>
            ELSE /\ made' = made + 1
                 /\ connected' = IF ok THEN connected \cup {made + 1} ELSE connected
                 /\ IF ConnectSucceeded(ok)
                      THEN /\ attempts_log' = Append(attempts_log, "True")
                           /\ login_connection' = made + 1
                           /\ login_result' = made + 1
                           /\ win' = "closed"
                           /\ closed_by' = "on_connect"
                           /\ UNCHANGED errors_shown
                      ELSE /\ attempts_log' = Append(attempts_log, "False")
                           /\ errors_shown' = errors_shown + 1
                           /\ login_result' = 0
                           /\ UNCHANGED <<login_connection, win, closed_by>>
    /\ UNCHANGED <<is_root, returned>>
    /\ UNCHANGED exceptLogin

\* on_cancel, lines 108-113 (the Cancel button and the Escape key).
on_cancel ==
    /\ win = "collecting"
    /\ login_result' = 0
    /\ win' = "closed"
    /\ closed_by' = "on_cancel"
    /\ UNCHANGED <<is_root, login_connection, made, connected, attempts_log,
                   errors_shown, returned>>
    /\ UNCHANGED exceptLogin

\* The user closes the window; no WM_DELETE_WINDOW handler is installed,
\* so Tk destroys the window and no method of MariaDBLogin runs.
window_close ==
    /\ win = "collecting"
    /\ win' = "closed"
    /\ closed_by' = "window"
    /\ UNCHANGED <<is_root, login_result, login_connection, made, connected,
                   attempts_log, errors_shown, returned>>
    /\ UNCHANGED exceptLogin

\* run, lines 121-129: mainloop() or wait_window() ends when the window is
\* destroyed, then `return self._result`.
run ==
    /\ win = "closed"
    /\ returned = <<>>
    /\ returned' = <<login_result>>
    /\ UNCHANGED <<is_root, win, login_result, login_connection, made,
                   connected, attempts_log, errors_shown, closed_by>>
    /\ UNCHANGED exceptLogin

LoginNext == on_connect \/ on_cancel \/ window_close \/ run

LoginInit ==
    /\ ListenerInit
    /\ DbParked
    /\ StreamParked
    /\ CleanParked
    /\ AppConstructed
    /\ \E root \in BOOLEAN : LoginConstructed(root)
    /\ MainParked

SpecLogin == LoginInit /\ [][LoginNext]_vars

\* ------------------------------------------------------------------- main
\* lines 290-304: `login = MariaDBLogin()` (no master, a root window) and
\* `conn = login.run()`; the dialog's handlers run inside run().
main_login ==
    /\ main_pc = "login"
    /\ LoginNext

\* The second definition never takes the branch of line 310.
ConnIsNoneNever == FALSE

\* line 310: `if conn is None`.
ConnIsNone == returned[1] = 0

\* lines 310-313: no connection, main returns.
main_abort ==
    /\ main_pc = "login"
    /\ returned # <<>>
    /\ ConnIsNone
    /\ main_pc' = "returned"
    /\ UNCHANGED app_db
    /\ UNCHANGED exceptMain

\* lines 316-321: the root window and aiEnglishQuery(..., db=conn).
main_construct ==
    /\ main_pc = "login"
    /\ returned # <<>>
    /\ ~ConnIsNone
    /\ app_db' = returned[1]
    /\ main_pc' = "mainloop"
    /\ UNCHANGED exceptMain

\* line 321 when the constructor raises (load_openai_key, lines 47-51, with
\* no OPENAI_API_KEY; Payload and initialize_ai reading their files): no
\* orchestrator exists and the exception ends main.
main_construct_raises ==
    /\ main_pc = "login"
    /\ returned # <<>>
    /\ ~ConnIsNone
    /\ main_pc' = "raised"
    /\ UNCHANGED app_db
    /\ UNCHANGED exceptMain

\* line 322, root.mainloop(): the buttons call on_submit and on_clear.
main_handler ==
    /\ main_pc = "mainloop"
    /\ (on_submit \/ on_clear)

\* line 322: the window is closed and mainloop returns.
main_quit ==
    /\ main_pc = "mainloop"
    /\ main_pc' = "returned"
    /\ UNCHANGED app_db
    /\ UNCHANGED exceptMain

MainNext ==
    \/ main_login
    \/ main_abort
    \/ main_construct
    \/ main_construct_raises
    \/ main_handler
    \/ main_quit

\* main starts: the dialog is constructed, the orchestrator is not; the
\* widgets' variables hold what create_widgets will give them.
MainInit ==
    /\ ListenerInit
    /\ DbParked
    /\ StreamParked
    /\ CleanParked
    /\ AppConstructed
    /\ LoginParked
    /\ main_pc = "login"
    /\ app_db = 0

SpecMain == MainInit /\ [][MainNext]_vars

C2_ExplicitStopNotifiesOnce ==
    (stopped /\ Quiescent) => notified = 1

\* C3. At most one capture-loop thread of the listener is alive at a time.
C3_AtMostOneWorker ==
    Cardinality({w \in Threads : Alive(w)}) <= 1

\* C4. Single shot: after the caller has started the listener, the
\* transcription callback is invoked at most once until the caller starts it
\* again. Stated over the runs in which no thread met a busy microphone, so
\* that it does not rest on what the microphone object does then.
C4_SingleShot ==
    ~clash => heard <= 1

\* C5. The listener is never left hanging: is_listening is not true while no
\* capture loop is running or about to run (no thread alive, the foreground
\* thread not inside a call). Stated over the runs in which no thread met a
\* busy microphone.
C5_NeverLeftHanging ==
    (~clash /\ Quiescent) => ~is_listening

\* ====================================================== MariaDBConnection
\* C6. _connect on an object with no live session makes between 1 and
\* reconnect_attempts + 1 driver connection attempts, sleeps only between
\* two attempts (one sleep fewer than attempts, none after the last),
\* returns True at the first attempt that succeeds and False only after
\* reconnect_attempts + 1 failed attempts.
C6_ConnectRetries ==
    ~wasLive =>
      /\ tries <= reconnect_attempts + 1
      /\ (dpc = "L53" /\ cret = "none") => (oks = 0 /\ sleeps = tries)
      /\ dpc = "sleep" => (oks = 0 /\ tries >= 1 /\ sleeps = tries - 1)
      /\ cret # "none" => (tries >= 1 /\ sleeps = tries - 1)
      /\ cret = "True" => oks = 1
      /\ cret = "False" => (oks = 0 /\ tries = reconnect_attempts + 1)

\* _connect returned True on its last permitted attempt, after retries.
C6_Witness ==
    /\ dop = "_connect" /\ result = "True" /\ ~wasLive
    /\ tries = reconnect_attempts + 1 /\ tries >= 2 /\ sleeps = tries - 1

\* C7. When _connect has returned False the object holds no live session:
\* self.connection is not a connected session, and no driver connection
\* opened during the call is still open.
C7_NoSessionAfterFailure ==
    cret = "False" =>
      /\ connection \notin live
      /\ \A c \in (base + 1)..nconns : c \notin live

\* _connect returned False although the driver handed out a connection
\* during the call (lost before its cursor was obtained).
C7_Witness ==
    dop = "_connect" /\ result = "False" /\ nconns > base /\ connection > base

\* C8 as stated: execute makes no connection attempt of its own, and on an
\* object that is not connected it sends nothing to the driver.
C8_ExecuteNeverConnects ==
    dop = "execute" => (tries = 0 /\ (~wasLive => sent = 0))

\* C8 as amended: execute first calls _connect through get_cursor, so on an
\* object that is not connected it makes the (bounded) connection attempts
\* itself; it raises ConnectionError, with nothing sent to the driver and
\* no live session, exactly when _connect returned False; the statement is
\* sent only after _connect returned True, and no connection attempt is
\* made once it has been sent.
C8_ExecuteConnectsFirst ==
    dop = "execute" =>
      /\ result = "ConnectionError" =>
            (cret = "False" /\ sent = 0 /\ connection \notin live)
      /\ (cret = "False" /\ dpc = "idle") => result = "ConnectionError"
      /\ sent > 0 => cret = "True"
      /\ dpc \in {"L53", "sleep", "ret"} => sent = 0
      /\ (~wasLive /\ cret # "none") => tries >= 1

\* execute on an object that was not connected made a connection attempt
\* itself and returned rows.
C8_Witness ==
    dop = "execute" /\ ~wasLive /\ tries >= 1 /\ result = "rows"

\* Blank or whitespace-only, said without strip().
WhitespaceOnly(s) == \A i \in 1..Len(s) : s[i] \in Whitespace

\* C9. execute and execute_modify called with a blank or whitespace-only
\* string raise ValueError at once: no connection attempt, nothing sent to
\* the driver, and connection, cursor and the driver's sessions unchanged.
C9_BlankRejectedFirst ==
    /\ []((dop \in {"execute", "execute_modify"} /\ WhitespaceOnly(sql)) =>
            (dpc = "idle" /\ result = "ValueError" /\ tries = 0 /\ sent = 0))
    /\ [][(/\ ndbcalls' # ndbcalls
           /\ dop' \in {"execute", "execute_modify"}
           /\ WhitespaceOnly(sql'))
          => UNCHANGED <<connection, cursor, live, nconns>>]_vars

\* execute_modify was called with a non-empty whitespace-only string on a
\* connected object.
C9_Witness ==
    /\ dop = "execute_modify" /\ sql # <<>> /\ WhitespaceOnly(sql)
    /\ result = "ValueError" /\ connection \in live

\* C10. When the driver raised an error during execute, the statement was
\* sent exactly once, rollback was invoked exactly once, no rows were
\* returned and the error the caller gets is that same error.
C10_ErrorRolledBackAndReraised ==
    (dop = "execute" /\ dpc = "idle" /\ err # "none") =>
        (sent = 1 /\ rollbacks = 1 /\ result = "DriverError")

\* C16. execute_modify commits exactly once, after the driver executed the
\* statement, and returns the affected-row count; when the driver raised
\* while executing the statement, commit was never invoked, rollback was
\* invoked once and the error the caller gets is the driver's error.
C16_CommitOnceAfterExecution ==
    dop = "execute_modify" =>
        /\ commits <= 1
        /\ commits = 1 => sent = 1
        /\ dpc = "commit" => (sent = 1 /\ commits = 0 /\ err = "none")
        /\ result = "count" =>
              (dpc = "idle" /\ sent = 1 /\ commits = 1 /\ rollbacks = 0)
        /\ (dpc = "idle" /\ err # "none" /\ commits = 0) =>
              (sent = 1 /\ rollbacks = 1 /\ result = "DriverError")

\* C19. After close() the object is not connected and nothing was raised;
\* close() makes one driver close when the session was open and none
\* otherwise, so a close() that follows a close() makes none; connection
\* and cursor fields are not written.
C19_CloseIdempotent ==
    /\ [](dop = "close" =>
            /\ dpc = "idle" /\ result = "none"
            /\ connection \notin live
            /\ closes = (IF wasLive THEN 1 ELSE 0)
            /\ after_close => closes = 0)
    /\ [][(ndbcalls' # ndbcalls /\ dop' = "close") =>
            /\ UNCHANGED <<connection, cursor, nconns>>
            /\ live' = live \ {connection}
            /\ dop = "close" => live' = live]_vars

\* close() has been called twice in succession on an object that had an
\* open session before the first of them.
C19_Witness ==
    /\ dop = "close" /\ after_close /\ ndbcalls = 3
    /\ connection # 0 /\ closes = 0 /\ live = {}

\* C20. An iteration of _connect that finds the session connected returns
\* True at once: no driver connect, no driver close, no sleep, and
\* connection, cursor and the driver's sessions are unchanged.
C20_LiveSessionReused ==
    [][(/\ dpc = "L53" /\ dpc' # "L53"
        /\ attempt <= reconnect_attempts
        /\ connection # 0 /\ connection \in live)
       => /\ cret' = "True" /\ dpc' = "ret"
          /\ UNCHANGED <<connection, cursor, live, nconns, tries, sleeps,
                          closes>>]_vars

\* _connect called by a client on a connected object has returned True
\* without an attempt.
C20_Witness ==
    /\ dop = "_connect" /\ dpc = "idle" /\ result = "True"
    /\ wasLive /\ tries = 0 /\ closes = 0 /\ connection \in live

\* C15. query_generator, iterated to its end, has yielded the mapping of
\* every row of the result once and in the driver's order, which is the list
\* execute builds from fetchall(); no batch is longer than chunk_size; what
\* was yielded so far is always a prefix of that list; and a started
\* generator ends, after one fetch per full or partial batch and one more.
C15_StreamYieldsAllRowsOnce ==
    LET all == ExecuteResults(description, resultset)
        n == Len(resultset)
    IN
    /\ [](/\ Len(yielded) <= n
          /\ yielded = SubSeq(all, 1, Len(yielded))
          /\ \A i \in 1..Len(fetches) : fetches[i] <= chunk_size
          /\ gpc = "done" =>
                /\ yielded = all
                /\ Len(fetches) = ((n + chunk_size - 1) \div chunk_size) + 1)
    /\ (gpc = "fetch" ~> gpc = "done")

\* A result of several rows, with a column name occurring twice, was
\* streamed to its end in more than one batch, the last one partial.
C15_Witness ==
    /\ gpc = "done" /\ Len(resultset) = 3 /\ chunk_size = 2
    /\ description = <<"id", "id">>
    /\ resultset[1] # resultset[2]
    /\ Len(yielded) = 3

\* A reply with a triple backtick somewhere in it.
ContainsFence(s) == \E i \in 1..(Len(s) - 2) : SubSeq(s, i, i + 2) = Fence

\* The reply is fence, letters, newline, text, newline, fence; k is the
\* position of the newline that ends the tag.
TagEnd(s) ==
    CHOOSE k \in 0..Len(s) :
        \/ k = 0 /\ ~(\E j \in 4..(Len(s) - 4) :
                        /\ s[j] = "\n"
                        /\ \A i \in 4..(j - 1) : s[i] \in Letters)
        \/ /\ k \in 4..(Len(s) - 4)
           /\ s[k] = "\n"
           /\ \A i \in 4..(k - 1) : s[i] \in Letters

FencedBlock(s) ==
    /\ StartsWith(s, Fence) /\ EndsWith(s, Fence)
    /\ TagEnd(s) # 0
    /\ s[Len(s) - 3] = "\n"

\* The text a fenced block encloses.
Enclosed(s) == SubSeq(s, TagEnd(s) + 1, Len(s) - 4)

NoEdgeWhitespace(s) ==
    s = <<>> \/ (s[1] \notin Whitespace /\ s[Len(s)] \notin Whitespace)

\* C17 as stated. A reply that is a fenced block (fence, optional letters,
\* newline, text, newline, fence) cleans to the enclosed text, and a reply
\* with no fence in it cleans to itself.
C17_FencedCleanedElseUnchanged ==
    cpc = "done" =>
        /\ (FencedBlock(ai_response) /\ NoEdgeWhitespace(Enclosed(ai_response)))
              => cleaned = Enclosed(ai_response)
        /\ ~ContainsFence(ai_response) => cleaned = ai_response

\* The text between the opening and the closing fence of s.
Between(s) == SubSeq(s, 4, Len(s) - 3)

DropOneNewlineAtEnd(s) ==
    IF s # <<>> /\ s[Len(s)] = "\n" THEN SubSeq(s, 1, Len(s) - 1) ELSE s

\* C17 amended. With r the reply less its surrounding whitespace: a fenced
\* block whose text has no whitespace at its ends cleans to that text; any
\* r that opens and closes with a fence cleans to what is between the
\* fences less the letters that directly follow the opening fence, the
\* whitespace after them and one newline before the closing fence; a reply
\* with no fence in it cleans to r.
C17_FencedCleanedElseStripped ==
    LET r == Strip(ai_response) IN
    cpc = "done" =>
        /\ (FencedBlock(r) /\ NoEdgeWhitespace(Enclosed(r)))
              => cleaned = Enclosed(r)
        /\ (Len(r) >= 6 /\ StartsWith(r, Fence) /\ EndsWith(r, Fence))
              => LET w == Between(r) IN
                 cleaned = DropOneNewlineAtEnd(LStrip(Drop(w, LetterRun(w))))
        /\ ~ContainsFence(ai_response) => cleaned = r

\* A padded fenced block with a tag and a text of several characters was
\* cleaned.
C17_Witness ==
    /\ cpc = "done"
    /\ ai_response = <<" ">> \o Fence \o <<"S", "\n", "S", " ", ";", "\n">>
                        \o Fence \o <<"\n">>
    /\ cleaned = <<"S", " ", ";">>

\* C18. After load_to_tkinter_grid was given a non-empty list, directly or
\* by on_submit, the tree's columns are the keys of the first row, it holds
\* one item per row of the list and no other, in the list's order, each
\* item holding for every column the row's value for it, or the empty
\* string when the row has no such key; and the result frame is shown.
C18_GridShowsResult ==
    (aop \in {"load_to_tkinter_grid", "on_submit"} /\ escaped = "none"
        /\ results # <<>>) =>
        LET C == results[1].keys IN
        /\ tree_columns = C
        /\ visible
        /\ Len(tree_rows) = Len(results)
        /\ \A i \in 1..Len(results) :
              /\ Len(tree_rows[i]) = Len(C)
              /\ \A j \in 1..Len(C) :
                    tree_rows[i][j] =
                        IF \E k \in 1..Len(results[i].keys) :
                               results[i].keys[k] = C[j]
                          THEN results[i].val[C[j]]
                          ELSE ""

\* A tree that held two items was loaded with two rows, the second of
\* which lacks a key of the first.
C18_Witness ==
    /\ aop = "load_to_tkinter_grid" /\ rows_before = 2
    /\ results = <<DictZip(<<"id", "name">>, <<"b", "a">>),
                   DictZip(<<"id">>, <<"a">>)>>
    /\ tree_rows = << <<"b", "a">>, <<"a", "">> >>

\* C12. A submit whose statement ran and returned no row leaves the tree's
\* columns and items and the visibility of the result frame as they were.
C12_EmptyResultLeavesGrid ==
    [][(/\ aop' = "on_submit" /\ executed' = 1 /\ escaped' = "none"
        /\ results' = <<>>)
       => UNCHANGED <<tree_columns, tree_rows, visible>>]_vars

\* C13. A submit of blank text, or one whose reply cleans to a blank
\* statement, shows a message, returns without an exception and leaves the
\* tree and the visibility of the result frame as they were.
C13_InputErrorsCaught ==
    [][(/\ aop' = "on_submit"
        /\ \/ WhitespaceOnly(content')
           \/ executed' = 1 /\ WhitespaceOnly(lastsql'))
       => /\ escaped' = "none"
          /\ warned' = 1
          /\ UNCHANGED <<tree_columns, tree_rows, visible>>]_vars

\* C14. A submit of blank or whitespace-only text makes no send_message
\* call and no db.execute call, warns, and leaves the tree's columns and
\* items and the visibility of the result frame unchanged.
C14_BlankSubmitFailsFast ==
    [][(aop' = "on_submit" /\ WhitespaceOnly(content'))
       => /\ translated' = 0 /\ executed' = 0
          /\ warned' = 1 /\ status' = "Nothing to submit"
          /\ UNCHANGED <<tree_columns, tree_rows, visible>>]_vars

\* Whitespace was submitted while the grid showed rows.
C14_Witness ==
    /\ aop = "on_submit" /\ content # <<>> /\ WhitespaceOnly(content)
    /\ warned = 1 /\ visible /\ tree_rows # <<>>

\* C11. run returns a connection only when the last on_connect succeeded:
\* the object returned is the one that attempt stored, and its _connect
\* returned True; after a cancel or a window close, whatever attempts
\* failed before, run returns None. An on_connect that fails shows an
\* error, stores no connection, and leaves the dialog collecting; one that
\* succeeds stores the connection and closes the dialog.
C11_LoginReturnsLiveOrNone ==
    /\ [](LET n == Len(attempts_log) IN
          /\ returned # <<>> =>
                /\ win = "closed"
                /\ returned[1] # 0 <=> closed_by = "on_connect"
                /\ returned[1] = 0 <=> closed_by \in {"on_cancel", "window"}
                /\ returned[1] # 0 =>
                      /\ returned[1] \in connected
                      /\ returned[1] = login_connection
                      /\ attempts_log[n] = "True"
          /\ closed_by = "on_connect" <=> (n > 0 /\ attempts_log[n] = "True")
          /\ closed_by = "on_connect" =>
                (login_result # 0 /\ login_result = login_connection)
          /\ closed_by # "on_connect" =>
                (login_result = 0 /\ login_connection = 0)
          /\ errors_shown = Cardinality({i \in 1..n : attempts_log[i] # "True"}))
    /\ [][(/\ attempts_log' # attempts_log
           /\ attempts_log'[Len(attempts_log')] # "True")
            => /\ win' = "collecting" /\ win = "collecting"
               /\ errors_shown' = errors_shown + 1
               /\ login_result' = 0 /\ login_connection' = 0]_vars

\* run returned the connection of a successful attempt that followed
\* failed ones.
C11_Witness ==
    /\ Len(attempts_log) = 3 /\ attempts_log[1] = "False"
    /\ attempts_log[2] = "raised"
    /\ returned # <<>> /\ returned[1] # 0

\* C24. At the step at which _connect comes to return True the stored
\* cursor is not None, was made from the stored connection, and that
\* connection is connected; a stored connection that is connected always
\* has its own cursor stored with it; and the cursor get_cursor yields to
\* the body of execute or execute_modify is the stored connection's.
C24_CursorOfLiveConnection ==
    /\ []((connection # 0 /\ connection \in live) => cursor = connection)
    /\ [](dpc \in {"body", "commit"} => (cursor # 0 /\ cursor = connection))
    /\ [][(cret # "True" /\ cret' = "True")
            => /\ cursor' # 0
               /\ cursor' = connection'
               /\ connection' \in live']_vars

\* A cursor was yielded by a _connect that found the earlier session
\* dropped, was refused once and then connected anew.
C24_Witness ==
    /\ dop \in {"execute", "execute_modify"} /\ dpc = "body"
    /\ base = 1 /\ ~wasLive /\ tries = 2 /\ oks = 1
    /\ connection = 2 /\ cursor = 2

\* C23. No exception leaves listen_speech: not one raised by the
\* transcription callback, and not one raised by the capture or the
\* recognition; and a thread whose transcription callback raised still
\* takes the success path to its end, invoking on_stop once. Runs with two
\* threads at the microphone at once are left aside.
C23_ListenerErrorsAbsorbed ==
    ~clash =>
        \A w \in Threads :
            /\ wexit[w] # "escaped"
            /\ (cb_raised /\ wexit[w] = "success" /\ wpc[w] \in {"exit", "done"})
                  => wstops[w] = 1

\* C22. A submit of text that is not blank calls send_message once, before
\* anything else. When that call raises, db.execute is not called. When it
\* returns, the reply is cleaned and db.execute is called once, with the
\* cleaned reply and nothing else. When db.execute raises, the grid is not
\* loaded and the tree and the result frame stay as they were. When it
\* returns, load_to_tkinter_grid is given the list it returned, and a list
\* with rows in it replaces every item the tree held. The steps reached are
\* always a prefix of translate, clean, execute, render.
C22_SubmitStepsInOrder ==
    [][(aop' = "on_submit" /\ ~WhitespaceOnly(content')) =>
         LET Steps == <<"translate", "clean", "execute", "render">>
             Reached(step) == \E i \in 1..Len(trail') : trail'[i] = step
         IN
         /\ translated' = 1
         /\ Len(trail') \in 1..4
         /\ trail' = SubSeq(Steps, 1, Len(trail'))
         /\ executed' = (IF Reached("execute") THEN 1 ELSE 0)
         /\ Reached("clean") <=> Reached("execute")
         /\ escaped' = "TranslatorError"
              => /\ executed' = 0 /\ replied' = <<>> /\ trail' = <<"translate">>
         /\ Reached("execute")
              => /\ Len(replied') = 1
                 /\ lastsql' = clean_ai_response(replied'[1])
         /\ escaped' # "none"
              => /\ ~Reached("render")
                 /\ UNCHANGED <<tree_columns, tree_rows, visible>>
         /\ escaped' = "none"
              => /\ trail' = Steps
                 /\ fetched' = <<results'>>
                 /\ results' # <<>> => Len(tree_rows') = Len(results')]_vars

\* A fenced reply was cleaned to what follows its opening line, which ran
\* and returned two rows; they replaced the two items of an earlier result.
C22_Witness ==
    /\ aop = "on_submit" /\ escaped = "none" /\ rows_before = 2
    /\ replied = <<Fence \o <<"S", "\n", "S", ";", "\n">> \o Fence>>
    /\ lastsql = <<"S", ";">>
    /\ trail = <<"translate", "clean", "execute", "render">>
    /\ Len(results) = 2 /\ fetched = <<results>> /\ Len(tree_rows) = 2

\* C21. In main the orchestrator exists only after run returned a
\* connection whose _connect returned True, and it is given that
\* connection; after run returned None, main returns, no orchestrator is
\* constructed and no handler ever runs; so every send_message call and
\* every db.execute call of on_submit happens after such a login.
C21_NoConnectionNoOrchestrator ==
    /\ [](main_pc = "mainloop" =>
            /\ returned # <<>> /\ returned[1] # 0
            /\ returned[1] \in connected
            /\ app_db = returned[1])
    /\ []((returned # <<>> /\ returned[1] = 0) =>
            /\ main_pc \in {"login", "returned"}
            /\ app_db = 0
            /\ aop = "none" /\ translated = 0 /\ executed = 0)
    /\ [][(aop' = "on_submit" /\ (translated' > 0 \/ executed' > 0)
            /\ <<translated', executed', aop', trail'>>
                  # <<translated, executed, aop, trail>>)
            => /\ main_pc = "mainloop"
               /\ app_db # 0 /\ app_db \in connected
               /\ returned = <<app_db>>
               /\ attempts_log[Len(attempts_log)] = "True"]_vars

\* After a failed attempt and a successful one, the orchestrator was given
\* the second connection and a submit translated and executed.
C21_Witness ==
    /\ main_pc = "mainloop"
    /\ attempts_log = <<"False", "True">>
    /\ app_db = 2 /\ returned = <<2>>
    /\ aop = "on_submit" /\ translated = 1 /\ executed = 1

====
